---- MODULE Spec2Model ----
(***************************************************************************)
(* Advertisement service (src/main.py): an in-memory dict of Advertisement *)
(* objects behind six FastAPI handlers.  The handlers are plain `def`      *)
(* functions, so FastAPI runs each request on a worker thread; a handler   *)
(* is modelled line by line, one action per statement that touches the     *)
(* shared dict or the shared objects.  A sequential run is a run in which  *)
(* a single worker thread serves the requests one after the other.         *)
(*                                                                         *)
(* Python values: Optional[T] is modelled as a set, {} for None and {v}    *)
(* for the value v; str as a sequence of one-character strings; float as   *)
(* an integer; datetime as [t, aware]; UUID as a positive integer.         *)
(***************************************************************************)
EXTENDS Integers, Sequences, FiniteSets, TLC

\* ---------------------------------------------------------------- bounds
NumUUID == 2
MaxClock == 1
NumThreads == 2

UUIDs == 1..NumUUID
Threads == 1..NumThreads

\* ------------------------------------------------------ program constants
MinLen == 1
TitleMax == 200
DescriptionMax == 2000
AuthorMax == 100
PriceGt == 0
QueryPriceGt == 0
\* CPython: a dict's smallest key table has 8 slots, of which 5 are usable
DictUsable == 5

\* --------------------------------------------------------- Python values
None == {}
Some(x) == {x}
Val(o) == CHOOSE x \in o : TRUE

Rep(n) == [i \in 1..n |-> "x"]

LowerChar(c) ==
  CASE c = "A" -> "a"
    [] c = "B" -> "b"
    [] c = "I" -> "i"
    [] c = "R" -> "r"
    [] OTHER -> c

\* str.lower()
lower(s) == [i \in 1..Len(s) |-> LowerChar(s[i])]

\* `needle in hay` on str
Contains(needle, hay) ==
  \E i \in 0..(Len(hay) - Len(needle)) :
     SubSeq(hay, i + 1, i + Len(needle)) = needle

\* str(uuid)
Str(u) == <<"id", u>>

\* datetime.utcnow(): the wall clock's reading, as a naive datetime
Clock == 0..MaxClock
utcnow(ts) == [t |-> ts, aware |-> FALSE]

\* datetime.__lt__ / __gt__ raise TypeError between naive and aware values
CanCompare(a, b) == a.aware = b.aware
Lt(a, b) == a.t < b.t

\* ------------------------------------------------------------ the models
FieldOrder == <<"title", "description", "price", "author">>
Fields == {"title", "description", "price", "author"}

StrOK(o, lo, hi) == o # None /\ Len(Val(o)) >= lo /\ Len(Val(o)) <= hi
OptStrOK(o, lo, hi) == o = None \/ StrOK(o, lo, hi)

\* AdvertisementCreate: every field required and within its bounds
ValidCreate(b) ==
  /\ StrOK(b.title, MinLen, TitleMax)
  /\ StrOK(b.description, MinLen, DescriptionMax)
  /\ b.price # None /\ Val(b.price) > PriceGt
  /\ StrOK(b.author, MinLen, AuthorMax)

\* AdvertisementUpdate: every field Optional; None passes, a value is bounded
ValidUpdate(b) ==
  /\ OptStrOK(b.title, MinLen, TitleMax)
  /\ OptStrOK(b.description, MinLen, DescriptionMax)
  /\ (b.price = None \/ Val(b.price) > PriceGt)
  /\ OptStrOK(b.author, MinLen, AuthorMax)

\* ad_update.dict(exclude_unset=True): the fields the request set, in model order
UpdateDataAll(b) == FieldOrder
UpdateData(b) == SelectSeq(FieldOrder, LAMBDA f : f \in b.fields_set)

\* the Query(...) declarations of search_advertisements
ValidQueryNoGt(q) ==
  /\ (q.title = None \/ Len(Val(q.title)) >= MinLen)
  /\ (q.description = None \/ Len(Val(q.description)) >= MinLen)
  /\ (q.author = None \/ Len(Val(q.author)) >= MinLen)
ValidQuery(q) ==
  /\ (q.title = None \/ Len(Val(q.title)) >= MinLen)
  /\ (q.description = None \/ Len(Val(q.description)) >= MinLen)
  /\ (q.author = None \/ Len(Val(q.author)) >= MinLen)
  /\ (q.price_min = None \/ Val(q.price_min) > QueryPriceGt)
  /\ (q.price_max = None \/ Val(q.price_max) > QueryPriceGt)

\* Python truthiness of an Optional[str], Optional[float], Optional[datetime]
TruthyStr(o) == o # None /\ Len(Val(o)) # 0
TruthyNum(o) == o # None /\ Val(o) # 0
TruthyDate(o) == o # None

\* line 85
RangeErrorOff(q) == FALSE
RangeError(q) ==
  TruthyNum(q.price_min) /\ TruthyNum(q.price_max)
    /\ Val(q.price_min) > Val(q.price_max)

\* lines 93-114, one pass of the loop body on the object ad:
\* "AttributeError" / "TypeError" (the comparison raises), "skip" (continue)
\* or "keep" (results.append)
Match(ad, q) ==
  CASE TruthyStr(q.title) /\ ad.title = None -> "AttributeError"
    [] TruthyStr(q.title) /\ ~Contains(lower(Val(q.title)), lower(Val(ad.title)))
         -> "skip"
    [] TruthyStr(q.description) /\ ad.description = None -> "AttributeError"
    [] TruthyStr(q.description)
         /\ ~Contains(lower(Val(q.description)), lower(Val(ad.description)))
         -> "skip"
    [] TruthyStr(q.author) /\ ad.author = None -> "AttributeError"
    [] TruthyStr(q.author) /\ ~Contains(lower(Val(q.author)), lower(Val(ad.author)))
         -> "skip"
    [] TruthyNum(q.price_min) /\ ad.price = None -> "TypeError"
    [] TruthyNum(q.price_min) /\ Val(ad.price) < Val(q.price_min) -> "skip"
    [] TruthyNum(q.price_max) /\ ad.price = None -> "TypeError"
    [] TruthyNum(q.price_max) /\ Val(ad.price) > Val(q.price_max) -> "skip"
    [] TruthyDate(q.created_after) /\ ~CanCompare(ad.created_at, Val(q.created_after))
         -> "TypeError"
    [] TruthyDate(q.created_after) /\ Lt(ad.created_at, Val(q.created_after))
         -> "skip"
    [] TruthyDate(q.created_before) /\ ~CanCompare(ad.created_at, Val(q.created_before))
         -> "TypeError"
    [] TruthyDate(q.created_before) /\ Lt(Val(q.created_before), ad.created_at)
         -> "skip"
    [] OTHER -> "keep"

\* ------------------------------------------------- advertisements_db = {}
\* A CPython dict: the entries in insertion order; `del` leaves a hole, and
\* an insertion into a full entry table first compacts the holes away.
Hole == [key |-> <<>>, ref |-> None]
Live(d) == {i \in 1..Len(d) : d[i].ref # None}
Slot(d, k) == {i \in Live(d) : d[i].key = k}
InDb(d, k) == Slot(d, k) # {}
NotInDb(d, k) == ~InDb(d, k)
DictGet(d, k) == Val(d[CHOOSE i \in Slot(d, k) : TRUE].ref)
Used(d) == Cardinality(Live(d))
Compact(d) == SelectSeq(d, LAMBDA e : e.ref # None)
DictSet(d, k, r) ==
  IF InDb(d, k)
    THEN [d EXCEPT ![CHOOSE i \in Slot(d, k) : TRUE].ref = Some(r)]
    ELSE Append(IF Len(d) >= DictUsable THEN Compact(d) ELSE d,
                [key |-> k, ref |-> Some(r)])
DictDelKeep(d, k) == d
DictDel(d, k) == [d EXCEPT ![CHOOSE i \in Slot(d, k) : TRUE] = Hole]
Keys(d) == {d[i].key : i \in Live(d)}
\* list(d.values()) as object references
Values(d) == [i \in 1..Len(Compact(d)) |-> Val(Compact(d)[i].ref)]

\* ----------------------------------------------------------------- state
VARIABLES
  db,       \* advertisements_db
  objs,     \* the Advertisement objects, by identity: None once unreachable
  issued,   \* every UUID uuid4() has returned
  pc,       \* per worker thread: the line it is about to run
  req,      \* per worker thread: the request it serves
  loc,      \* per worker thread: the handler's local variables
  resp,     \* per worker thread: the response of the finished request
  deleted,  \* history: the keys whose DELETE returned 204
  pre,      \* history: the store as the request of a sequential run found it
  last      \* history: the record the preceding request created, if it did

vars == <<db, objs, issued, pc, req, loc, resp, deleted, pre, last>>

NoAd == [title |-> None, description |-> None, price |-> None, author |-> None]
NoUpd == [fields_set |-> {}, title |-> None, description |-> None,
          price |-> None, author |-> None]
NoQ == [title |-> None, description |-> None, author |-> None,
        price_min |-> None, price_max |-> None,
        created_after |-> None, created_before |-> None]
NoReq == [op |-> "", key |-> <<>>, ad |-> NoAd, upd |-> NoUpd, q |-> NoQ]
NoIt == [pos |-> 0, used |-> -1, len |-> 0]
NoLoc == [ad |-> None, todo |-> <<>>, it |-> NoIt, results |-> <<>>, ok |-> 0]
NoResp == [status |-> 0, exc |-> "", body |-> <<>>]
NoObjs == [u \in UUIDs |-> None]
NoPre == [set |-> FALSE, db |-> <<>>, objs |-> NoObjs, deleted |-> {}, issued |-> {}]

Init ==
  /\ db = <<>>
  /\ objs = NoObjs
  /\ issued = {}
  /\ pc = [t \in Threads |-> "idle"]
  /\ req = [t \in Threads |-> NoReq]
  /\ loc = [t \in Threads |-> NoLoc]
  /\ resp = [t \in Threads |-> NoResp]
  /\ deleted = {}
  /\ pre = NoPre
  /\ last = None

\* the objects some reference still reaches: the dict's values and the
\* handlers' locals (reference counting frees the others at once)
Reach(d, l) ==
  {Val(d[i].ref) : i \in Live(d)}
    \cup UNION {l[t].ad : t \in Threads}
    \cup UNION {{l[t].results[i] : i \in 1..Len(l[t].results)} : t \in Threads}

Collect(o, d, l) == [u \in UUIDs |-> IF u \in Reach(d, l) THEN o[u] ELSE None]

Snapshot(snap) ==
  IF snap
    THEN [set |-> TRUE, db |-> db, objs |-> objs, deleted |-> deleted,
          issued |-> issued]
    ELSE NoPre

\* ---------------------------------------------- the request layer (FastAPI)
\* A request is decoded and validated before its handler runs: a body or a
\* query that fails its model is answered 422 and the handler never starts.
Accept(t, r, valid, first, snap) ==
  /\ pc[t] = "idle"
  /\ req' = [req EXCEPT ![t] = r]
  /\ pre' = Snapshot(snap)
  /\ IF valid
       THEN /\ pc' = [pc EXCEPT ![t] = first]
            /\ resp' = resp
       ELSE /\ pc' = [pc EXCEPT ![t] = "done"]
            /\ resp' = [resp EXCEPT ![t] =
                          [status |-> 422, exc |-> "RequestValidationError",
                           body |-> <<>>]]
  /\ UNCHANGED <<db, objs, issued, loc, deleted, last>>

\* the handler raises: HTTPException (404, 400) or an unhandled exception (500)
Raise(t, status, exc) ==
  /\ pc' = [pc EXCEPT ![t] = "done"]
  /\ resp' = [resp EXCEPT ![t] = [status |-> status, exc |-> exc, body |-> <<>>]]
  /\ loc' = [loc EXCEPT ![t] = NoLoc]
  /\ objs' = Collect(objs, db, loc')

HasNone(ad) ==
  ad.title = None \/ ad.description = None \/ ad.price = None \/ ad.author = None

\* uuid4(): a UUID never returned before
uuid4Any == UUIDs
uuid4 == UUIDs \ issued

\* ------------------------------------------------------ create_advertisement
StartCreate(t, b, snap) ==
  /\ Cardinality(issued) + Cardinality({s \in Threads : pc[s] = "c42"}) < NumUUID
  /\ Accept(t, [NoReq EXCEPT !.op = "create", !.ad = b], ValidCreate(b), "c42", snap)

\* line 42: Advertisement(**ad.dict()), id and created_at from their factories
c42(t) ==
  /\ pc[t] = "c42"
  /\ \E u \in uuid4 : \E ts \in Clock :
       /\ issued' = issued \cup {u}
       /\ loc' = [loc EXCEPT ![t].ad = Some(u)]
       /\ objs' = [objs EXCEPT ![u] =
                     Some([id |-> u,
                           title |-> req[t].ad.title,
                           description |-> req[t].ad.description,
                           price |-> req[t].ad.price,
                           author |-> req[t].ad.author,
                           created_at |-> utcnow(ts)])]
  /\ pc' = [pc EXCEPT ![t] = "c43"]
  /\ UNCHANGED <<db, req, resp, deleted, pre, last>>

\* line 43: advertisements_db[str(advertisement.id)] = advertisement
c43(t) ==
  /\ pc[t] = "c43"
  /\ db' = DictSet(db, Str(Val(loc[t].ad)), Val(loc[t].ad))
  /\ loc' = [loc EXCEPT ![t].results = <<Val(loc[t].ad)>>, ![t].ad = None,
                        ![t].ok = 201]
  /\ pc' = [pc EXCEPT ![t] = "ret"]
  /\ UNCHANGED <<objs, issued, req, resp, deleted, pre, last>>

\* ------------------------------------------------------ update_advertisement
StartUpdate(t, k, b, snap) ==
  Accept(t, [NoReq EXCEPT !.op = "update", !.key = k, !.upd = b],
         ValidUpdate(b), "u48", snap)

\* lines 48-49
u48(t) ==
  /\ pc[t] = "u48"
  /\ IF NotInDb(db, req[t].key)
       THEN Raise(t, 404, "HTTPException")
       ELSE /\ pc' = [pc EXCEPT ![t] = "u51"]
            /\ UNCHANGED <<objs, loc, resp>>
  /\ UNCHANGED <<db, issued, req, deleted, pre, last>>

\* lines 51-52
u51(t) ==
  /\ pc[t] = "u51"
  /\ IF ~InDb(db, req[t].key)
       THEN Raise(t, 500, "KeyError")
       ELSE /\ loc' = [loc EXCEPT ![t].ad = Some(DictGet(db, req[t].key)),
                                  ![t].todo = UpdateData(req[t].upd)]
            /\ pc' = [pc EXCEPT ![t] = "u54"]
            /\ UNCHANGED <<objs, resp>>
  /\ UNCHANGED <<db, issued, req, deleted, pre, last>>

\* lines 54-55: one setattr per pass; the object is the one the dict holds
u54(t) ==
  /\ pc[t] = "u54"
  /\ IF loc[t].todo = <<>>
       THEN /\ pc' = [pc EXCEPT ![t] = "u57"]
            /\ UNCHANGED <<objs, loc>>
       ELSE LET f == Head(loc[t].todo)
                u == Val(loc[t].ad)
            IN /\ objs' = [objs EXCEPT ![u] =
                             Some([Val(objs[u]) EXCEPT ![f] = req[t].upd[f]])]
               /\ loc' = [loc EXCEPT ![t].todo = Tail(loc[t].todo)]
               /\ pc' = pc
  /\ UNCHANGED <<db, issued, req, resp, deleted, pre, last>>

\* line 57: advertisements_db[advertisement_id] = advertisement
u57(t) ==
  /\ pc[t] = "u57"
  /\ db' = DictSet(db, req[t].key, Val(loc[t].ad))
  /\ loc' = [loc EXCEPT ![t].results = <<Val(loc[t].ad)>>, ![t].ad = None,
                        ![t].ok = 200]
  /\ pc' = [pc EXCEPT ![t] = "ret"]
  /\ UNCHANGED <<objs, issued, req, resp, deleted, pre, last>>

\* ------------------------------------------------------ delete_advertisement
StartDelete(t, k, snap) ==
  Accept(t, [NoReq EXCEPT !.op = "delete", !.key = k], TRUE, "d62", snap)

\* the two statements in the other order: the entry is deleted, then looked for
d62Swapped(t) ==
  /\ pc[t] = "d62"
  /\ IF InDb(db, req[t].key)
       THEN /\ db' = DictDel(db, req[t].key)
            /\ pc' = [pc EXCEPT ![t] = "done"]
            /\ resp' = [resp EXCEPT ![t] =
                          [status |-> 404, exc |-> "HTTPException", body |-> <<>>]]
            /\ loc' = loc
            /\ objs' = Collect(objs, db', loc')
       ELSE /\ Raise(t, 500, "KeyError")
            /\ db' = db
  /\ UNCHANGED <<issued, req, deleted, pre, last>>

\* lines 62-63
d62(t) ==
  /\ pc[t] = "d62"
  /\ IF NotInDb(db, req[t].key)
       THEN Raise(t, 404, "HTTPException")
       ELSE /\ pc' = [pc EXCEPT ![t] = "d65"]
            /\ UNCHANGED <<objs, loc, resp>>
  /\ UNCHANGED <<db, issued, req, deleted, pre, last>>

\* lines 65-66
d65(t) ==
  /\ pc[t] = "d65"
  /\ IF ~InDb(db, req[t].key)
       THEN /\ Raise(t, 500, "KeyError")
            /\ UNCHANGED <<db, deleted>>
       ELSE /\ db' = DictDel(db, req[t].key)
            /\ objs' = Collect(objs, db', loc)
            /\ deleted' = deleted \cup {req[t].key}
            /\ pc' = [pc EXCEPT ![t] = "done"]
            /\ resp' = [resp EXCEPT ![t] = [status |-> 204, exc |-> "", body |-> <<>>]]
            /\ loc' = loc
  /\ UNCHANGED <<issued, req, pre, last>>

\* --------------------------------------------------------- get_advertisement
StartGet(t, k, snap) ==
  Accept(t, [NoReq EXCEPT !.op = "get", !.key = k], TRUE, "g70", snap)

\* lines 70-71
g70(t) ==
  /\ pc[t] = "g70"
  /\ IF NotInDb(db, req[t].key)
       THEN Raise(t, 404, "HTTPException")
       ELSE /\ pc' = [pc EXCEPT ![t] = "g72"]
            /\ UNCHANGED <<objs, loc, resp>>
  /\ UNCHANGED <<db, issued, req, deleted, pre, last>>

\* line 72
g72(t) ==
  /\ pc[t] = "g72"
  /\ IF ~InDb(db, req[t].key)
       THEN Raise(t, 500, "KeyError")
       ELSE /\ loc' = [loc EXCEPT ![t].results = <<DictGet(db, req[t].key)>>,
                                  ![t].ok = 200]
            /\ pc' = [pc EXCEPT ![t] = "ret"]
            /\ UNCHANGED <<objs, resp>>
  /\ UNCHANGED <<db, issued, req, deleted, pre, last>>

\* ----------------------------------------------------- search_advertisements
StartSearch(t, q, snap) ==
  Accept(t, [NoReq EXCEPT !.op = "search", !.q = q], ValidQuery(q), "s85", snap)

\* lines 85-91: the range check, then results = []
s85(t) ==
  /\ pc[t] = "s85"
  /\ IF RangeError(req[t].q)
       THEN Raise(t, 400, "HTTPException")
       ELSE /\ pc' = [pc EXCEPT ![t] = "s92"]
            /\ UNCHANGED <<objs, loc, resp>>
  /\ UNCHANGED <<db, issued, req, deleted, pre, last>>

\* lines 92-114: one next() of the iterator of advertisements_db.values() and
\* one pass of the loop body.  The iterator is made in the step of its first
\* next(): it keeps the dict's size as it was then (di_used), its place in
\* the entries (di_pos) and the number of values still to come (len).
s92(t) ==
  /\ pc[t] = "s92"
  /\ LET it == IF loc[t].it = NoIt
                 THEN [pos |-> 0, used |-> Used(db), len |-> Used(db)]
                 ELSE loc[t].it
         rest == {i \in Live(db) : i > it.pos}
     IN IF it.used # Used(db)
          THEN Raise(t, 500, "RuntimeError")
        ELSE IF rest = {}
          THEN /\ loc' = [loc EXCEPT ![t].it = NoIt, ![t].ok = 200]
               /\ pc' = [pc EXCEPT ![t] = "ret"]
               /\ UNCHANGED <<objs, resp>>
        ELSE IF it.len = 0
          THEN Raise(t, 500, "RuntimeError")
        ELSE LET i == CHOOSE i \in rest : \A j \in rest : i <= j
                 u == Val(db[i].ref)
                 m == Match(Val(objs[u]), req[t].q)
             IN IF m \in {"AttributeError", "TypeError"}
                  THEN Raise(t, 500, m)
                  ELSE /\ loc' = [loc EXCEPT
                                    ![t].it = [it EXCEPT !.pos = i, !.len = it.len - 1],
                                    ![t].results =
                                       IF m = "keep" THEN Append(@, u) ELSE @]
                       /\ pc' = pc
                       /\ UNCHANGED <<objs, resp>>
  /\ UNCHANGED <<db, issued, req, deleted, pre, last>>

\* ------------------------------------------------- return and serialization
\* The handler returns and FastAPI serializes what it returned through the
\* response_model.  An object holding None in a `str` or `float` field fails
\* the response validation under pydantic 1 (500) and is passed through
\* under pydantic 2: either outcome is possible.
ret(t) ==
  /\ pc[t] = "ret"
  /\ LET body == [i \in 1..Len(loc[t].results) |-> Val(objs[loc[t].results[i]])]
         bad == \E i \in 1..Len(body) : HasNone(body[i])
     IN \E ok \in (IF bad THEN {TRUE, FALSE} ELSE {TRUE}) :
          resp' = [resp EXCEPT ![t] =
                     IF ok THEN [status |-> loc[t].ok, exc |-> "", body |-> body]
                           ELSE [status |-> 500, exc |-> "ResponseValidationError",
                                 body |-> <<>>]]
  /\ pc' = [pc EXCEPT ![t] = "done"]
  /\ loc' = [loc EXCEPT ![t] = NoLoc]
  /\ objs' = Collect(objs, db, loc')
  /\ UNCHANGED <<db, issued, req, deleted, pre, last>>

\* the response is sent and the worker thread goes back to the pool
Respond(t, track) ==
  /\ pc[t] = "done"
  /\ pc' = [pc EXCEPT ![t] = "idle"]
  /\ last' = IF track /\ req[t].op = "create" /\ resp[t].status = 201
               THEN Some(resp[t].body[1]) ELSE None
  /\ req' = [req EXCEPT ![t] = NoReq]
  /\ resp' = [resp EXCEPT ![t] = NoResp]
  /\ pre' = NoPre
  /\ UNCHANGED <<db, objs, issued, loc, deleted>>

CreateSteps(t) == c42(t) \/ c43(t)
UpdateSteps(t) == u48(t) \/ u51(t) \/ u54(t) \/ u57(t)
DeleteSteps(t) == d62(t) \/ d65(t)
GetSteps(t) == g70(t) \/ g72(t)
SearchSteps(t) == s85(t) \/ s92(t)

\* ------------------------------------------------------------ the requests
Bi == <<"B", "i">>
Ta == <<"a">>
Rd == <<"R", "d">>
Al == <<"A">>
naive(ts) == [t |-> ts, aware |-> FALSE]
aware(ts) == [t |-> ts, aware |-> TRUE]

BaseAd == [title |-> Some(Bi), description |-> Some(Rd), price |-> Some(1),
           author |-> Some(Al)]
Upd(f, v) == [NoUpd EXCEPT !.fields_set = {f}, ![f] = v]
Upd2(f, v, g, w) == [NoUpd EXCEPT !.fields_set = {f, g}, ![f] = v, ![g] = w]

\* the keys a path can carry: every UUID's text, and one that is no record's
PathKeys == {Str(u) : u \in UUIDs} \cup {Str(0)}

\* Spec: sequential runs of all five operations, with valid and invalid
\* bodies, a null in an update, a search that is out of range and one that
\* is invalid.
CreateInputs ==
  {BaseAd, [BaseAd EXCEPT !.price = Some(2)],
   [BaseAd EXCEPT !.title = Some(Rep(TitleMax + 1))],
   [BaseAd EXCEPT !.description = None],
   [BaseAd EXCEPT !.price = Some(0)]}
UpdateInputs ==
  {NoUpd, Upd("title", None), Upd("price", Some(0)),
   Upd("author", Some(<<>>))}
Queries ==
  {NoQ, [NoQ EXCEPT !.price_min = Some(2), !.price_max = Some(1)],
   [NoQ EXCEPT !.title = Some(<<>>)]}

Next ==
  \E t \in {1} :
    \/ \E b \in CreateInputs : StartCreate(t, b, TRUE)
    \/ \E k \in PathKeys : \E b \in UpdateInputs : StartUpdate(t, k, b, TRUE)
    \/ \E k \in PathKeys : StartDelete(t, k, TRUE)
    \/ \E k \in PathKeys : StartGet(t, k, TRUE)
    \/ \E q \in Queries : StartSearch(t, q, TRUE)
    \/ CreateSteps(t) \/ UpdateSteps(t) \/ DeleteSteps(t) \/ GetSteps(t)
    \/ SearchSteps(t) \/ ret(t)
    \/ Respond(t, TRUE)

Spec == Init /\ [][Next]_vars

\* SpecU: sequential runs of create, update and delete, the partial updates
\* holding no field, one field, two fields and all four.
PartialUpdates ==
  {NoUpd, Upd("title", Some(Ta)), Upd("price", None),
   Upd("description", Some(Rd)), Upd("author", Some(Al)),
   Upd2("title", Some(Ta), "price", Some(1)),
   [fields_set |-> Fields, title |-> Some(Bi), description |-> Some(Rd),
    price |-> None, author |-> Some(Al)]}

NextU ==
  \E t \in {1} :
    \/ StartCreate(t, BaseAd, TRUE)
    \/ \E k \in PathKeys : \E b \in PartialUpdates : StartUpdate(t, k, b, TRUE)
    \/ \E k \in PathKeys : StartDelete(t, k, TRUE)
    \/ CreateSteps(t) \/ UpdateSteps(t) \/ DeleteSteps(t) \/ ret(t)
    \/ Respond(t, FALSE)

SpecU == Init /\ [][NextU]_vars

\* SpecQ: sequential runs of create, delete and search, the search drawing
\* its seven criteria from absent, matching, excluding, zero, negative, empty
\* and timezone-aware values.
StoredAds == {BaseAd, [BaseAd EXCEPT !.title = Some(Ta), !.price = Some(2)]}
TextCriteria ==
  {<<None, None, None>>, <<Some(<<"b", "I">>), None, None>>,
   <<Some(<<>>), None, None>>, <<Some(<<"A">>), Some(<<"r">>), None>>,
   <<None, Some(<<"D">>), Some(<<"a">>)>>}
MinCriteria == {None, Some(0), Some(2)}
MaxCriteria == {None, Some(-1), Some(0), Some(1)}
AfterCriteria == {None, Some(naive(1)), Some(aware(1))}
BeforeCriteria == {None, Some(naive(0))}
Criteria(x, lo, hi, ca, cb) ==
  [title |-> x[1], description |-> x[2], author |-> x[3],
   price_min |-> lo, price_max |-> hi,
   created_after |-> ca, created_before |-> cb]
\* Every text criterion with every pair of price bounds; every pair of
\* dates with and without valid price bounds; every text criterion with
\* every pair of dates.
SearchQueries ==
  {Criteria(x, lo, hi, None, None) :
     <<x, lo, hi>> \in TextCriteria \X MinCriteria \X MaxCriteria}
  \cup
  {Criteria(<<None, None, None>>, lo, hi, ca, cb) :
     <<lo, hi, ca, cb>> \in
       {None, Some(2)} \X {None, Some(1)} \X AfterCriteria \X BeforeCriteria}
  \cup
  {Criteria(x, None, None, ca, cb) :
     <<x, ca, cb>> \in TextCriteria \X AfterCriteria \X BeforeCriteria}

NextQ ==
  \E t \in {1} :
    \/ \E b \in StoredAds : StartCreate(t, b, TRUE)
    \/ \E k \in PathKeys : StartDelete(t, k, TRUE)
    \/ \E q \in SearchQueries : StartSearch(t, q, TRUE)
    \/ CreateSteps(t) \/ DeleteSteps(t) \/ SearchSteps(t) \/ ret(t)
    \/ Respond(t, FALSE)

SpecQ == Init /\ [][NextQ]_vars

\* SpecC: the worker threads serve requests at the same time, their
\* statements interleaved; valid requests only, no null and no aware
\* datetime among them; get, update and delete are of one id.
ConcKeys == {Str(1)}

NextC ==
  \E t \in Threads :
    \/ StartCreate(t, BaseAd, FALSE)
    \/ \E k \in ConcKeys : StartUpdate(t, k, Upd("title", Some(Ta)), FALSE)
    \/ \E k \in ConcKeys : StartDelete(t, k, FALSE)
    \/ \E k \in ConcKeys : StartGet(t, k, FALSE)
    \/ StartSearch(t, NoQ, FALSE)
    \/ CreateSteps(t) \/ UpdateSteps(t) \/ DeleteSteps(t) \/ GetSteps(t)
    \/ SearchSteps(t) \/ ret(t)
    \/ Respond(t, FALSE)

SpecC == Init /\ [][NextC]_vars

\* ------------------------------------------------------------------ claims
\* the stored records in the dict's iteration order
Stored(d, o) == [i \in 1..Len(Values(d)) |-> Val(o[Values(d)[i]])]
Done(op) == pc[1] = "done" /\ req[1].op = op
RecordValid(ad) ==
  /\ StrOK(ad.title, 1, 200)
  /\ StrOK(ad.description, 1, 2000)
  /\ ad.price # None /\ Val(ad.price) > 0
  /\ StrOK(ad.author, 1, 100)

\* C1 (as claimed): after any sequence of validated create, update and delete
\* requests every stored record has price > 0 and a title, description and
\* author that are non-empty strings within 1-200, 1-2000 and 1-100, also
\* when an update supplies a field as null.
C1_StoredRecordsValid ==
  \A i \in 1..Len(Stored(db, objs)) : RecordValid(Stored(db, objs)[i])

\* C3: a valid create is answered 201 with a record whose id was never
\* issued or stored before; the record is stored under str(id) with the
\* request's fields, every record stored before is still stored unchanged,
\* and a get of that id issued as the next request returns the same record.
C3_CreateThenGet ==
  /\ Done("create") /\ ValidCreate(req[1].ad) => resp[1].status = 201
  /\ Done("create") /\ resp[1].status = 201 =>
       LET r == resp[1].body[1]
       IN /\ r.id \notin pre.issued
          /\ Str(r.id) \notin Keys(pre.db)
          /\ InDb(db, Str(r.id))
          /\ Val(objs[DictGet(db, Str(r.id))]) = r
          /\ r.title = req[1].ad.title /\ r.description = req[1].ad.description
          /\ r.price = req[1].ad.price /\ r.author = req[1].ad.author
          /\ \A k \in Keys(pre.db) :
               /\ InDb(db, k)
               /\ DictGet(db, k) = DictGet(pre.db, k)
               /\ objs[DictGet(db, k)] = pre.objs[DictGet(pre.db, k)]
          /\ Used(db) = Used(pre.db) + 1
  /\ Done("get") /\ last # None /\ req[1].key = Str(Val(last).id) =>
       resp[1].status = 200 /\ resp[1].body = <<Val(last)>>

C3_Witness ==
  /\ Done("get") /\ last # None /\ req[1].key = Str(Val(last).id)
  /\ resp[1].status = 200
  /\ pre.deleted # {}
  /\ Used(db) = 1

\* C4: an update that reached the store changes, on the record of its id,
\* exactly the fields the partial update holds (to the values it holds);
\* the omitted fields, id, created_at, the dict's entries and every other
\* record are as before; with no field supplied nothing changes at all.
C4_UpdateFrame ==
  Done("update") /\ resp[1].status \notin {404, 422} =>
    LET u == DictGet(pre.db, req[1].key)
        old == Val(pre.objs[u])
        new == Val(objs[u])
    IN /\ db = pre.db
       /\ \A v \in UUIDs \ {u} : objs[v] = pre.objs[v]
       /\ new.id = old.id /\ new.created_at = old.created_at
       /\ Str(new.id) = req[1].key
       /\ \A f \in Fields :
            new[f] = IF f \in req[1].upd.fields_set THEN req[1].upd[f] ELSE old[f]
       /\ req[1].upd.fields_set = {} => objs = pre.objs
       /\ resp[1].status = 200 => resp[1].body = <<new>>

C4_Witness ==
  /\ Done("update") /\ resp[1].status = 200
  /\ req[1].upd.fields_set = {"title", "price"}
  /\ Used(db) = 2
  /\ objs # pre.objs
  /\ \E v \in UUIDs : objs[v] # None /\ Val(objs[v]).price = None

\* C5 (as claimed): once a delete of an id has succeeded, every later get,
\* update and delete of that id is answered 404.
C5_LaterRequestsAre404 ==
  pc[1] = "done" /\ req[1].op \in {"get", "update", "delete"}
    /\ req[1].key \in pre.deleted => resp[1].status = 404

\* C5 (amended): a deleted id is never in the store again; every later get
\* and delete of it, and every later update whose body passes validation, is
\* answered 404, an update whose body fails validation is answered 422; and
\* no search returns a record of that id.
C5_DeletedStaysDeleted ==
  /\ \A k \in deleted : ~InDb(db, k)
  /\ pc[1] = "done" /\ req[1].op \in {"get", "update", "delete"}
       /\ req[1].key \in pre.deleted =>
       resp[1].status =
         IF req[1].op = "update" /\ ~ValidUpdate(req[1].upd) THEN 422 ELSE 404
  /\ Done("search") =>
       \A i \in 1..Len(resp[1].body) : Str(resp[1].body[i].id) \notin pre.deleted

C5_Witness ==
  /\ Done("update") /\ req[1].key \in pre.deleted /\ resp[1].status = 404
  /\ Used(db) = 1

\* C7: a request answered with NotFound (404), InvalidRange (400) or
\* ValidationError (422) leaves the dict and every record as it found them.
C7_ErrorsLeaveStore ==
  pc[1] = "done" /\ resp[1].status \in {404, 400, 422} =>
    db = pre.db /\ objs = pre.objs /\ deleted = pre.deleted

C7_Witness ==
  /\ Done("delete") /\ resp[1].status = 404
  /\ Used(db) = 1 /\ pre.deleted # {}

\* what the search contract asks of one record: every supplied criterion met
Satisfies(ad, q) ==
  /\ q.title = None
       \/ (ad.title # None /\ Contains(lower(Val(q.title)), lower(Val(ad.title))))
  /\ q.description = None
       \/ (ad.description # None
             /\ Contains(lower(Val(q.description)), lower(Val(ad.description))))
  /\ q.author = None
       \/ (ad.author # None /\ Contains(lower(Val(q.author)), lower(Val(ad.author))))
  /\ q.price_min = None \/ (ad.price # None /\ Val(ad.price) >= Val(q.price_min))
  /\ q.price_max = None \/ (ad.price # None /\ Val(ad.price) <= Val(q.price_max))
  /\ q.created_after = None \/ ad.created_at.t >= Val(q.created_after).t
  /\ q.created_before = None \/ ad.created_at.t <= Val(q.created_before).t
Filtered(d, o, q) == SelectSeq(Stored(d, o), LAMBDA ad : Satisfies(ad, q))

\* C2 (as claimed): every accepted search is answered 200 with exactly the
\* stored records that satisfy every supplied criterion, each once and in
\* the store's iteration order.
C2_SearchIsFilter ==
  Done("search") /\ resp[1].status \notin {422, 400} =>
    resp[1].status = 200 /\ resp[1].body = Filtered(pre.db, pre.objs, req[1].q)

\* What does hold of search on a store whose records hold no null: a query
\* whose datetimes are naive is answered as C2 says.
SearchIsFilterOfNaive ==
  Done("search") /\ resp[1].status \notin {422, 400}
    /\ (req[1].q.created_after = None \/ ~Val(req[1].q.created_after).aware)
    /\ (req[1].q.created_before = None \/ ~Val(req[1].q.created_before).aware)
    /\ (\A i \in 1..Len(Stored(pre.db, pre.objs)) :
           ~HasNone(Stored(pre.db, pre.objs)[i])) =>
    resp[1].status = 200 /\ resp[1].body = Filtered(pre.db, pre.objs, req[1].q)

BothBounds(q) == q.price_min # None /\ q.price_max # None
TextsNonEmpty(q) ==
  /\ q.title # Some(<<>>) /\ q.description # Some(<<>>) /\ q.author # Some(<<>>)

\* C6 (as claimed): with both bounds supplied and price_min > price_max the
\* search is answered 400, for every pair of values, zero and negative ones
\* included; it returns no record and leaves the store unchanged.
C6_InvalidRangeForEveryPair ==
  Done("search") /\ BothBounds(req[1].q)
    /\ Val(req[1].q.price_min) > Val(req[1].q.price_max) =>
    /\ resp[1].status = 400
    /\ resp[1].body = <<>> /\ db = pre.db /\ objs = pre.objs

\* C6 (amended): with both bounds supplied and price_min > price_max the
\* search is answered 400 when the query passes validation (both bounds
\* above 0, no empty text criterion) and 422 otherwise, so always 422 when a
\* bound is zero or negative; either way it returns no record and leaves
\* the store unchanged.
C6_InvalidRangeOfValidBounds ==
  Done("search") /\ BothBounds(req[1].q)
    /\ Val(req[1].q.price_min) > Val(req[1].q.price_max) =>
    /\ resp[1].status =
         IF Val(req[1].q.price_min) > 0 /\ Val(req[1].q.price_max) > 0
              /\ TextsNonEmpty(req[1].q)
           THEN 400 ELSE 422
    /\ resp[1].body = <<>> /\ db = pre.db /\ objs = pre.objs

C6_Witness ==
  /\ Done("search") /\ resp[1].status = 400
  /\ req[1].q.price_min = Some(2) /\ req[1].q.price_max = Some(1)
  /\ req[1].q.created_after = Some(aware(1))
  /\ Used(db) = 2

\* C10 (as claimed): a search that supplies price_min = 0 is accepted and
\* answered as the same search without price_min.
C10_ZeroIsDropped ==
  Done("search") /\ req[1].q.price_min = Some(0)
    /\ ValidQuery([req[1].q EXCEPT !.price_min = None]) =>
    /\ resp[1].status # 422
    /\ resp[1].status = 200 =>
         resp[1].body =
           Filtered(pre.db, pre.objs, [req[1].q EXCEPT !.price_min = None])

\* C10 (amended): a search that supplies a falsy value (price_min or
\* price_max of 0, an empty title, description or author) is answered 422
\* and returns nothing; in every search that reaches the handler each
\* supplied criterion is truthy, so none is dropped.
C10_FalsyIsRejected ==
  /\ Done("search")
       /\ (req[1].q.price_min = Some(0) \/ req[1].q.price_max = Some(0)
             \/ ~TextsNonEmpty(req[1].q)) =>
       resp[1].status = 422 /\ resp[1].body = <<>>
  /\ req[1].op = "search" /\ (pc[1] \in {"s85", "s92", "ret"} \/ 
                              (pc[1] = "done" /\ resp[1].status # 422)) =>
       /\ req[1].q.title # None => TruthyStr(req[1].q.title)
       /\ req[1].q.description # None => TruthyStr(req[1].q.description)
       /\ req[1].q.author # None => TruthyStr(req[1].q.author)
       /\ req[1].q.price_min # None => TruthyNum(req[1].q.price_min)
       /\ req[1].q.price_max # None => TruthyNum(req[1].q.price_max)

C10_Witness ==
  /\ Done("search") /\ req[1].q.price_min = Some(0) /\ resp[1].status = 422
  /\ ValidQuery([req[1].q EXCEPT !.price_min = None])
  /\ Used(db) = 2

\* C8 (as claimed): update and delete requests racing on one id end as some
\* serial order of them would: none of them ends in an unhandled KeyError,
\* and a key whose delete was answered 204 is not in the dict again.
C8_RacesSerialize ==
  /\ \A t \in Threads : resp[t].exc # "KeyError"
  /\ \A k \in deleted : ~InDb(db, k)

\* C9 (as claimed): a search whose scan is interleaved with creates and
\* deletes is answered 200, and every record it returns satisfies the
\* criteria.
C9_SearchCompletes ==
  \A t \in Threads :
    pc[t] = "done" /\ req[t].op = "search" /\ resp[t].status \notin {400, 422} =>
      /\ resp[t].status = 200
      /\ \A i \in 1..Len(resp[t].body) : Satisfies(resp[t].body[i], req[t].q)

====
